---- MODULE Spec2Model ----
(***************************************************************************)
(* Appointment booking of the doctor's appointment system: the POST        *)
(* /api/appointments handler, the cancel and complete handlers, the slot   *)
(* resolver, the admin account toggles and the availability update, over   *)
(* the Appointment collection with its unique compound index; the e-mail   *)
(* notifier the handlers await; and the feedback routes with the doctor's  *)
(* rating aggregate, over the Feedback collection.                         *)
(*                                                                         *)
(* Every handler is an async function: between two awaited database        *)
(* operations other requests run.  A request is therefore a small process  *)
(* whose steps are its database operations, each taken together with the   *)
(* synchronous code that follows it up to the next await.                  *)
(*                                                                         *)
(* Time is a counter of ticks; TicksPerDay ticks make a calendar day.  An  *)
(* appointmentDate is an instant (a tick), as a JavaScript Date is; a      *)
(* startTime or endTime ("HH:MM") is a tick of the day.  The server's time *)
(* zone is UTC, so the calendar day of an instant is instant \div          *)
(* TicksPerDay.                                                            *)
(***************************************************************************)
EXTENDS Integers, Sequences, FiniteSets, TLC

\* ------------------------------------------------------------- bounds
MaxReq == 3
MaxNow == 1
MaxDate == 2
TicksPerDay == 2
MaxFeedback == 3

\* ------------------------------------------------------------- users
Patients == {"p1"}
Doctors == {"d1", "d2"}
Admins == {"ad"}
Users == Patients \cup Doctors \cup Admins

RoleOf(u) == IF u \in Patients THEN "patient"
             ELSE IF u \in Doctors THEN "doctor" ELSE "admin"

\* ------------------------------------------------------------- time
Dates == 0..MaxDate
StartTimes == 0..(TicksPerDay - 1)

\* The calendar day of an instant.
Day(t) == t \div TicksPerDay

\* Midnight of a calendar day: what new Date("yyyy-MM-dd") denotes.
Midnight(day) == day * TicksPerDay

\* The instant of a wall-clock time on the calendar day of an instant.
Combined(t, startTime) == Midnight(Day(t)) + startTime

\* Date.prototype.toLocaleDateString('en-US', {weekday: 'long'}): day 0 of
\* the epoch is a Thursday.
WeekdayNames == <<"Thursday", "Friday", "Saturday", "Sunday",
                  "Monday", "Tuesday", "Wednesday">>
DayName(t) == WeekdayNames[(Day(t) % Len(WeekdayNames)) + 1]

\* ------------------------------------------------------------- inputs
\* timeSlot objects a booking request may carry.
SlotInputs == {[startTime |-> s, endTime |-> s + 1] : s \in StartTimes}

\* Availability lists a doctor may submit.
AvailInputs ==
  { <<>>,
    << [day |-> "Thursday", startTime |-> 0, endTime |-> 1, isAvailable |-> TRUE],
       [day |-> "Thursday", startTime |-> 1, endTime |-> 2, isAvailable |-> FALSE] >> }

Reasons == {"sick"}
CompleteInputs == { [notes |-> "", prescription |-> ""],
                    [notes |-> "rest", prescription |-> "rx"] }

\* ------------------------------------------------------------- state
VARIABLES
  now,      \* the server clock, new Date()
  user,     \* User documents of the doctors: isApproved, isActive
  doctor,   \* Doctor documents: availability, totalAppointments, rating
            \* (in tenths: 43 is 4.3), totalRatings
  appts,    \* the Appointment collection, in insertion order; _id = index
  feedback, \* the Feedback collection, in insertion order; _id = index
  req       \* the requests received so far, with their position and result

vars == <<now, user, doctor, appts, feedback, req>>

ActiveStatuses == {"pending", "confirmed"}
TerminalStatuses == {"completed", "cancelled"}

\* The _ids of the Appointment collection; a document removed by deleteMany
\* leaves its _id behind, never reused.
ApptIds == { i \in DOMAIN appts : appts[i].status # "deleted" }
ReqIds == DOMAIN req

NoReq == [kind |-> "none", pc |-> "done", actor |-> "", doctor |-> "",
          date |-> 0, startTime |-> 0, endTime |-> 0, appt |-> 0,
          total |-> 0, reason |-> "", notes |-> "", prescription |-> "",
          released |-> FALSE, mail |-> "", fb |-> 0, rating |-> 0,
          oldRating |-> 0, seenRating |-> 0, seenTotal |-> 0,
          slots |-> <<>>, result |-> ""]

\* A finished request: the handler's locals are gone, the response stays.  A
\* booking that went on to the ledger keeps its key and the _id it created.
LedgerResults == {"Created", "SlotAlreadyBooked", "ServerError"}

Finished(r, res) ==
  IF r.kind = "book" /\ res \in LedgerResults
  THEN [r EXCEPT !.pc = "done", !.result = res, !.total = 0, !.actor = "",
                 !.endTime = 0, !.released = FALSE]
  ELSE [NoReq EXCEPT !.kind = r.kind, !.result = res]

Init ==
  /\ now = 0
  /\ user = [d \in Doctors |-> [isApproved |-> FALSE, isActive |-> TRUE]]
  /\ doctor = [d \in Doctors |-> [availability |-> <<>>, totalAppointments |-> 0,
                                  rating |-> 0, totalRatings |-> 0]]
  /\ appts = <<>>
  /\ feedback = <<>>
  /\ req = <<>>

\* ------------------------------------------------------------- clock
Tick ==
  /\ now < MaxNow
  /\ now' = now + 1
  /\ UNCHANGED <<user, doctor, appts, feedback, req>>

\* ------------------------------------------------------------- booking
\* doctorId values a booking request may carry: a doctor's user id, or the
\* id of a user who has no Doctor document.
BookTargets == {"d1", "p1"}

\* The doctor accounts the admin and availability requests are about.
Managed == BookTargets \cap Doctors

\* The checks that follow Doctor.findOne(...).populate('userId').
BookDoctorCheck(d, t) ==
  IF d \notin Doctors THEN "NotFound"
  ELSE IF ~user[d].isApproved THEN "DoctorUnavailable"
  ELSE IF t < now THEN "PastDate"
  ELSE "ok"

\* Appointment.findOne({doctorId, appointmentDate, 'timeSlot.startTime',
\* status: {$in: ['pending', 'confirmed']}}).
ExistingAppointment(d, t, s) ==
  \E i \in ApptIds : /\ appts[i].doctor = d
                     /\ appts[i].date = t
                     /\ appts[i].startTime = s
                     /\ appts[i].status \in ActiveStatuses

\* The collection without its unique index: no insert is rejected.
DuplicateKeyNoIndex(d, t, s) == FALSE

\* The unique compound index {doctorId, appointmentDate, timeSlot.startTime}:
\* an insert is rejected (E11000) when a document with the same key exists,
\* whatever its status.

\* A unique index {appointmentDate, timeSlot.startTime} without doctorId.
DuplicateKeyAnyDoctor(d, t, s) ==
  \E i \in ApptIds : /\ appts[i].date = t
                     /\ appts[i].startTime = s

DuplicateKey(d, t, s) ==
  \E i \in ApptIds : /\ appts[i].doctor = d
                     /\ appts[i].date = t
                     /\ appts[i].startTime = s

\* History, read by no handler: when the request arrives, the slot (doctor,
\* calendar day, startTime) holds completed or cancelled appointments only
\* and no other booking for it is under way.
Released(d, t, s) ==
  LET held == { i \in ApptIds : /\ appts[i].doctor = d
                                /\ Day(appts[i].date) = Day(t)
                                /\ appts[i].startTime = s }
  IN /\ held # {}
     /\ \A i \in held : appts[i].status \in TerminalStatuses
     /\ \A q \in ReqIds :
          (req[q].kind = "book" /\ req[q].pc # "done")
            => ~( /\ req[q].doctor = d
                  /\ Day(req[q].date) = Day(t)
                  /\ req[q].startTime = s )

\* Appointment.create without a status: the schema's default applies.
NewAppointmentDefaultStatus(r) ==
  [patient |-> r.actor, doctor |-> r.doctor, date |-> r.date,
   startTime |-> r.startTime, endTime |-> r.endTime, status |-> "pending",
   cancelReason |-> "", notes |-> "", prescription |-> ""]

\* The document of Appointment.create({..., status: 'confirmed'}).
NewAppointment(r) ==
  [patient |-> r.actor, doctor |-> r.doctor, date |-> r.date,
   startTime |-> r.startTime, endTime |-> r.endTime, status |-> "confirmed",
   cancelReason |-> "", notes |-> "", prescription |-> ""]

\* The request arrives (authorize('patient') passed) and the doctor is read.
BookFindDoctor(p, d, t, slot) ==
  /\ Len(req) < MaxReq
  /\ LET r0 == [NoReq EXCEPT !.kind = "book", !.actor = p, !.doctor = d,
                             !.date = t, !.startTime = slot.startTime,
                             !.endTime = slot.endTime]
         chk == BookDoctorCheck(d, t)
     IN req' = Append(req,
                 IF chk = "ok"
                 THEN [r0 EXCEPT !.pc = "find",
                                 !.total = doctor[d].totalAppointments,
                                 !.released = Released(d, t, slot.startTime)]
                 ELSE Finished(r0, chk))
  /\ UNCHANGED <<now, feedback, user, doctor, appts>>

BookFindExisting(r) ==
  /\ req[r].kind = "book" /\ req[r].pc = "find"
  /\ req' = [req EXCEPT ![r] =
               IF ExistingAppointment(@.doctor, @.date, @.startTime)
               THEN Finished(@, "SlotAlreadyBooked")
               ELSE [@ EXCEPT !.pc = "create"]]
  /\ UNCHANGED <<now, feedback, user, doctor, appts>>

\* Appointment.create and the findById(...).populate that reads it back.
BookCreate(r) ==
  /\ req[r].kind = "book" /\ req[r].pc = "create"
  /\ IF DuplicateKey(req[r].doctor, req[r].date, req[r].startTime)
     THEN /\ req' = [req EXCEPT ![r] = Finished(@, "SlotAlreadyBooked")]
          /\ UNCHANGED appts
     ELSE /\ appts' = Append(appts, NewAppointment(req[r]))
          /\ req' = [req EXCEPT ![r] = [@ EXCEPT !.pc = "saveDoctor",
                                                  !.appt = Len(appts) + 1]]
  /\ UNCHANGED <<now, feedback, user, doctor>>

\* doctor.totalAppointments += 1 on the document read at the start, then
\* doctor.save(); the notifier's outcome is swallowed and 201 is sent.
BookSaveDoctor(r) ==
  /\ req[r].kind = "book" /\ req[r].pc = "saveDoctor"
  /\ doctor' = [doctor EXCEPT ![req[r].doctor].totalAppointments =
                                 req[r].total + 1]
  /\ req' = [req EXCEPT ![r] = Finished(@, "Created")]
  /\ UNCHANGED <<now, feedback, user, appts>>

\* ------------------------------------------------------------- cancel
\* PUT /:id/cancel without its authorization check.
CancelCheckAnyActor(actor, id) ==
  IF id \notin ApptIds THEN "NotFound"
  ELSE IF appts[id].status \in {"cancelled", "completed"} THEN "InvalidState"
  ELSE "ok"

\* The checks that follow Appointment.findById in PUT /:id/cancel.
CancelCheck(actor, id) ==
  IF id \notin ApptIds THEN "NotFound"
  ELSE IF /\ RoleOf(actor) # "admin"
          /\ appts[id].patient # actor
          /\ appts[id].doctor # actor THEN "Forbidden"
  ELSE IF appts[id].status \in {"cancelled", "completed"} THEN "InvalidState"
  ELSE "ok"

CancelRead(actor, id, reason) ==
  /\ Len(req) < MaxReq
  /\ LET r0 == [NoReq EXCEPT !.kind = "cancel", !.actor = actor,
                             !.appt = id, !.reason = reason]
         chk == CancelCheck(actor, id)
     IN req' = Append(req, IF chk = "ok" THEN [r0 EXCEPT !.pc = "save"]
                           ELSE Finished(r0, chk))
  /\ UNCHANGED <<now, feedback, user, doctor, appts>>

\* appointment.save() writes the modified paths status and cancelReason;
\* the notifier's outcome is swallowed and the appointment is sent.
CancelSave(r) ==
  /\ req[r].kind = "cancel" /\ req[r].pc = "save"
  /\ appts' = [appts EXCEPT ![req[r].appt] =
                 [@ EXCEPT !.status = "cancelled",
                           !.cancelReason = req[r].reason]]
  /\ req' = [req EXCEPT ![r] = Finished(@, "Ok")]
  /\ UNCHANGED <<now, feedback, user, doctor>>

\* ------------------------------------------------------------- complete
\* authorize(...roles): the request goes on only for a user of a listed role.
Authorize(actor, roles) == RoleOf(actor) \in roles

\* PUT /:id/complete with the status check testing for 'completed' only.
CompleteCheckCancelledPasses(actor, id) ==
  IF id \notin ApptIds THEN "NotFound"
  ELSE IF appts[id].doctor # actor THEN "Forbidden"
  ELSE IF appts[id].status = "completed" THEN "InvalidState"
  ELSE "ok"

\* The checks that follow Appointment.findById in PUT /:id/complete.
CompleteCheck(actor, id) ==
  IF id \notin ApptIds THEN "NotFound"
  ELSE IF appts[id].doctor # actor THEN "Forbidden"
  ELSE IF appts[id].status # "confirmed" THEN "InvalidState"
  ELSE "ok"

CompleteRead(actor, id, in) ==
  /\ Len(req) < MaxReq
  /\ LET r0 == [NoReq EXCEPT !.kind = "complete", !.actor = actor,
                             !.appt = id, !.notes = in.notes,
                             !.prescription = in.prescription]
         chk == IF Authorize(actor, {"doctor"}) THEN CompleteCheck(actor, id)
                ELSE "Forbidden"
     IN req' = Append(req, IF chk = "ok" THEN [r0 EXCEPT !.pc = "save"]
                           ELSE Finished(r0, chk))
  /\ UNCHANGED <<now, feedback, user, doctor, appts>>

\* appointment.save() writes status and, when given, notes and prescription.
CompleteSave(r) ==
  /\ req[r].kind = "complete" /\ req[r].pc = "save"
  /\ appts' = [appts EXCEPT ![req[r].appt] =
                 [@ EXCEPT !.status = "completed",
                           !.notes = IF req[r].notes # "" THEN req[r].notes ELSE @,
                           !.prescription = IF req[r].prescription # ""
                                            THEN req[r].prescription ELSE @]]
  /\ req' = [req EXCEPT ![r] = Finished(@, "Ok")]
  /\ UNCHANGED <<now, feedback, user, doctor>>

\* ------------------------------------------------------------- admin
\* PUT /api/admin/doctors/:userId/approve
ApproveDoctor(d) ==
  /\ ~user[d].isApproved
  /\ user' = [user EXCEPT ![d].isApproved = TRUE]
  /\ UNCHANGED <<now, feedback, doctor, appts, req>>

\* PUT /api/admin/users/:userId/deactivate
DeactivateUser(d) ==
  /\ user' = [user EXCEPT ![d].isActive = FALSE]
  /\ user' # user
  /\ UNCHANGED <<now, feedback, doctor, appts, req>>

\* PUT /api/admin/users/:userId/activate
ActivateUser(d) ==
  /\ user' = [user EXCEPT ![d].isActive = TRUE]
  /\ user' # user
  /\ UNCHANGED <<now, feedback, doctor, appts, req>>

\* ------------------------------------------------------------- doctor
\* PUT /api/doctors/availability pushing the submitted entries onto the
\* stored list instead of assigning the list.
UpdateAvailabilityMerge(d, availability) ==
  /\ user[d].isApproved
  /\ doctor' = [doctor EXCEPT ![d].availability = @ \o availability]
  /\ doctor' # doctor
  /\ UNCHANGED <<now, feedback, user, appts, req>>

\* PUT /api/doctors/availability (behind checkDoctorApproval)
UpdateAvailability(d, availability) ==
  /\ user[d].isApproved
  /\ doctor' = [doctor EXCEPT ![d].availability = availability]
  /\ doctor' # doctor
  /\ UNCHANGED <<now, feedback, user, appts, req>>

\* ------------------------------------------------------------- resolver
\* GET /api/appointments/doctor/:doctorId/available-slots?date=t
ResolveSlots(d, t) ==
  LET dayName == DayName(t)
      dayAvailability ==
        SelectSeq(doctor[d].availability,
                  LAMBDA slot : slot.day = dayName /\ slot.isAvailable)
      bookedSlots ==
        { appts[i].startTime : i \in
            { j \in ApptIds : /\ appts[j].doctor = d
                              /\ appts[j].date >= t
                              /\ appts[j].date < t + TicksPerDay
                              /\ appts[j].status \in ActiveStatuses } }
  IN [k \in DOMAIN dayAvailability |->
        [day |-> dayAvailability[k].day,
         startTime |-> dayAvailability[k].startTime,
         endTime |-> dayAvailability[k].endTime,
         isBooked |-> dayAvailability[k].startTime \in bookedSlots]]

\* The handler of the resolver, request by request.  The date of the query
\* string is absent, a string that new Date() cannot parse, or a date.
DateInputs ==
  { [form |-> "missing", t |-> 0], [form |-> "malformed", t |-> 0] }
    \cup { [form |-> "date", t |-> t] : t \in Dates }

\* new Date(date).toLocaleDateString('en-US', {weekday: 'long'}): an
\* unparseable string gives the Invalid Date, whose weekday is the string
\* "Invalid Date".
WeekdayOf(q) == IF q.form = "date" THEN DayName(q.t) ELSE "Invalid Date"

\* doctor.availability.filter(slot => slot.day === dayName && slot.isAvailable)
DayAvailability(d, dayName) ==
  SelectSeq(doctor[d].availability,
            LAMBDA slot : slot.day = dayName /\ slot.isAvailable)

\* The request arrives; if (!date) 400; Doctor.findOne, if (!doctor) 404; an
\* empty dayAvailability is answered with an empty list.
SlotsFindDoctor(d, q) ==
  /\ Len(req) < MaxReq
  /\ LET r0 == [NoReq EXCEPT !.kind = "slots", !.doctor = d, !.date = q.t]
     IN req' = Append(req,
                 IF q.form = "missing" THEN Finished(r0, "InvalidInput")
                 ELSE IF d \notin Doctors THEN Finished(r0, "NotFound")
                 ELSE IF DayAvailability(d, WeekdayOf(q)) = <<>>
                      THEN Finished(r0, "Ok")
                 ELSE [r0 EXCEPT !.pc = "findBooked",
                                 !.slots = DayAvailability(d, WeekdayOf(q))])
  /\ UNCHANGED <<now, user, doctor, appts, feedback>>

\* The second step of a resolver that filters the doctor's list in place and
\* saves the document: the stored availability becomes the day's entries.
SlotsFindBookedInPlace(r) ==
  /\ req[r].kind = "slots" /\ req[r].pc = "findBooked"
  /\ LET bookedSlots ==
           { appts[i].startTime : i \in
               { j \in ApptIds : /\ appts[j].doctor = req[r].doctor
                                 /\ appts[j].date >= req[r].date
                                 /\ appts[j].date < req[r].date + TicksPerDay
                                 /\ appts[j].status \in ActiveStatuses } }
         availableSlots ==
           [k \in DOMAIN req[r].slots |->
              [day |-> req[r].slots[k].day,
               startTime |-> req[r].slots[k].startTime,
               endTime |-> req[r].slots[k].endTime,
               isBooked |-> req[r].slots[k].startTime \in bookedSlots]]
     IN req' = [req EXCEPT ![r] =
                  [Finished(@, "Ok") EXCEPT !.slots = availableSlots]]
  /\ doctor' = [doctor EXCEPT ![req[r].doctor].availability = req[r].slots]
  /\ UNCHANGED <<now, user, appts, feedback>>

\* Appointment.find of the day's pending and confirmed appointments; the
\* slots of the day are answered with their isBooked marks.
SlotsFindBooked(r) ==
  /\ req[r].kind = "slots" /\ req[r].pc = "findBooked"
  /\ LET bookedSlots ==
           { appts[i].startTime : i \in
               { j \in ApptIds : /\ appts[j].doctor = req[r].doctor
                                 /\ appts[j].date >= req[r].date
                                 /\ appts[j].date < req[r].date + TicksPerDay
                                 /\ appts[j].status \in ActiveStatuses } }
         availableSlots ==
           [k \in DOMAIN req[r].slots |->
              [day |-> req[r].slots[k].day,
               startTime |-> req[r].slots[k].startTime,
               endTime |-> req[r].slots[k].endTime,
               isBooked |-> req[r].slots[k].startTime \in bookedSlots]]
     IN req' = [req EXCEPT ![r] =
                  [Finished(@, "Ok") EXCEPT !.slots = availableSlots]]
  /\ UNCHANGED <<now, user, doctor, appts, feedback>>

\* ------------------------------------------------------------- system
\* :id values a cancel or complete request may carry: the _id of a stored
\* appointment, or an _id (0) that matches none.
TargetIds == ApptIds \cup {0}

Next ==
  \/ Tick
  \/ \E p \in Patients, d \in BookTargets, t \in Dates, slot \in SlotInputs :
       BookFindDoctor(p, d, t, slot)
  \/ \E r \in ReqIds : BookFindExisting(r)
  \/ \E r \in ReqIds : BookCreate(r)
  \/ \E r \in ReqIds : BookSaveDoctor(r)
  \/ \E u \in Users, id \in TargetIds, reason \in Reasons :
       CancelRead(u, id, reason)
  \/ \E r \in ReqIds : CancelSave(r)
  \/ \E u \in Users, id \in TargetIds, in \in CompleteInputs :
       CompleteRead(u, id, in)
  \/ \E r \in ReqIds : CompleteSave(r)
  \/ \E d \in Managed : ApproveDoctor(d)
  \/ \E d \in Managed : DeactivateUser(d)
  \/ \E d \in Managed : ActivateUser(d)
  \/ \E d \in Managed, a \in AvailInputs : UpdateAvailability(d, a)

Spec == Init /\ [][Next]_vars

\* A database operation of a request fails (storage unavailable): the
\* handler's catch answers 500 and nothing is written by that operation.
StorageFailure(r) ==
  /\ req[r].pc # "done"
  /\ req' = [req EXCEPT ![r] = Finished(@, "ServerError")]
  /\ UNCHANGED <<now, feedback, user, doctor, appts>>

NextFault == Next \/ \E r \in ReqIds : StorageFailure(r)

SpecFault == Init /\ [][NextFault]_vars

\* ------------------------------------------------------------- notifier
\* The handlers with the notifier as a step of its own: after the write the
\* handler awaits sendAppointmentConfirmation / sendAppointmentCancellation,
\* which awaits transporter.sendMail, and answers when that promise settles.
MailOutcomes == {"sent", "failed"}

\* What the handler answers once the notifier call has settled, if a
\* notifier failure were thrown on to the handler's outer catch.
MailResultRethrown(kind, outcome) ==
  IF outcome = "failed" THEN "ServerError"
  ELSE IF kind = "book" THEN "Created" ELSE "Ok"

\* What the handler answers once the notifier call has settled: the helper
\* catches and logs a sendMail failure, the handler's inner try/catch does
\* so again, and res.status(201) / res.json follows in both cases.
MailResult(kind, outcome) ==
  IF kind = "book" THEN "Created" ELSE "Ok"

\* doctor.totalAppointments += 1; await doctor.save(); the handler goes on to
\* the notifier.
BookSaveDoctorNotify(r) ==
  /\ req[r].kind = "book" /\ req[r].pc = "saveDoctor"
  /\ doctor' = [doctor EXCEPT ![req[r].doctor].totalAppointments =
                                 req[r].total + 1]
  /\ req' = [req EXCEPT ![r] = [@ EXCEPT !.pc = "email"]]
  /\ UNCHANGED <<now, feedback, user, appts>>

\* appointment.save() of the cancel; the handler goes on to the notifier.
CancelSaveNotify(r) ==
  /\ req[r].kind = "cancel" /\ req[r].pc = "save"
  /\ appts' = [appts EXCEPT ![req[r].appt] =
                 [@ EXCEPT !.status = "cancelled",
                           !.cancelReason = req[r].reason]]
  /\ req' = [req EXCEPT ![r] = [@ EXCEPT !.pc = "email"]]
  /\ UNCHANGED <<now, feedback, user, doctor>>

\* The awaited notifier call settles, delivered or failed, and the handler
\* sends its response.  A notifier call that never settles takes no step.
MailSettles(r, outcome) ==
  /\ req[r].pc = "email"
  /\ req' = [req EXCEPT ![r] =
               [Finished(@, MailResult(@.kind, outcome))
                  EXCEPT !.appt = req[r].appt, !.mail = outcome]]
  /\ UNCHANGED <<now, feedback, user, doctor, appts>>

\* The steps of the handlers that wait for the database only.
DbStep ==
  \E r \in ReqIds : \/ BookFindExisting(r)
                    \/ BookCreate(r)
                    \/ BookSaveDoctorNotify(r)
                    \/ CancelSaveNotify(r)

NextNotify ==
  \/ \E d \in Managed : ApproveDoctor(d)
  \/ \E p \in Patients, d \in BookTargets, t \in Dates, slot \in SlotInputs :
       BookFindDoctor(p, d, t, slot)
  \/ \E r \in ReqIds : BookFindExisting(r)
  \/ \E r \in ReqIds : BookCreate(r)
  \/ \E r \in ReqIds : BookSaveDoctorNotify(r)
  \/ \E u \in Users, id \in TargetIds, reason \in Reasons :
       CancelRead(u, id, reason)
  \/ \E r \in ReqIds : CancelSaveNotify(r)
  \/ \E r \in ReqIds, o \in MailOutcomes : MailSettles(r, o)

\* The database answers every operation; nothing makes the mail server
\* answer, so the notifier step has no fairness.
SpecNotify == Init /\ [][NextNotify]_vars /\ WF_vars(DbStep)

\* ------------------------------------------------------------- feedback
\* rating values a feedback request may carry (the validator accepts 1..5).
RatingInputs == {1, 2, 5}

\* A deleted Feedback document: its _id matches nothing any more.
NoFeedback == [appt |-> 0, patient |-> "", doctor |-> "", rating |-> 0,
               deleted |-> TRUE]

FeedbackIds == DOMAIN feedback

\* Feedback.findById(f) finds a document.
Stored(f) == f \in FeedbackIds /\ ~feedback[f].deleted

\* Feedback.findOne({appointmentId}); the unique index {appointmentId: 1}
\* rejects an insert exactly when such a document exists.
FeedbackOf(a) == { f \in FeedbackIds : Stored(f) /\ feedback[f].appt = a }

\* The operands <<rating (tenths), totalRatings, subtracted, added, divisor>>
\* for which ((rating * totalRatings - subtracted + added) / divisor) * 10,
\* evaluated in IEEE-754 doubles as JavaScript does, falls just below the
\* half that the exact value sits on, so that Math.round takes it down;
\* complete for totalRatings up to 4.
DoubleRoundsDown ==
  {
    <<1, 4, 2, 1, 4>>, <<1, 4, 3, 2, 4>>, <<1, 4, 4, 3, 4>>, <<2, 4, 3, 2, 4>>,
    <<2, 4, 4, 3, 4>>, <<2, 4, 5, 4, 4>>, <<3, 3, 1, 0, 2>>, <<3, 4, 2, 1, 4>>,
    <<3, 4, 3, 2, 4>>, <<6, 4, 4, 1, 4>>, <<6, 4, 5, 2, 4>>, <<7, 3, 1, 0, 2>>,
    <<7, 3, 2, 0, 2>>, <<7, 3, 3, 0, 2>>, <<7, 3, 4, 0, 2>>, <<7, 3, 5, 0, 2>>,
    <<7, 4, 4, 1, 4>>, <<7, 4, 5, 2, 4>>, <<14, 3, 0, 2, 4>>, <<14, 4, 4, 1, 4>>,
    <<14, 4, 5, 2, 4>>, <<17, 3, 2, 0, 2>>, <<17, 3, 3, 0, 2>>, <<17, 3, 4, 0, 2>>,
    <<17, 3, 5, 0, 2>>, <<19, 3, 1, 0, 2>>, <<19, 3, 2, 0, 2>>, <<19, 3, 3, 0, 2>>,
    <<19, 3, 4, 0, 2>>, <<19, 3, 5, 0, 2>>, <<23, 3, 1, 0, 2>>, <<23, 3, 2, 0, 2>>,
    <<23, 3, 3, 0, 2>>, <<23, 3, 4, 0, 2>>, <<23, 3, 5, 0, 2>>, <<23, 4, 4, 1, 4>>,
    <<23, 4, 5, 2, 4>>, <<28, 3, 0, 1, 4>>, <<28, 3, 0, 3, 4>>, <<29, 3, 3, 0, 2>>,
    <<29, 3, 4, 0, 2>>, <<29, 3, 5, 0, 2>>, <<33, 3, 1, 0, 2>>, <<33, 3, 2, 0, 2>>,
    <<33, 3, 3, 0, 2>>, <<33, 3, 4, 0, 2>>, <<33, 3, 5, 0, 2>>, <<41, 3, 1, 0, 2>>,
    <<41, 3, 2, 0, 2>>, <<41, 3, 3, 0, 2>>, <<41, 3, 4, 0, 2>>, <<41, 3, 5, 0, 2>>,
    <<43, 3, 1, 0, 2>>, <<43, 3, 2, 0, 2>>, <<43, 3, 3, 0, 2>>, <<43, 3, 4, 0, 2>>,
    <<43, 3, 5, 0, 2>>, <<46, 3, 0, 4, 4>>
  }

\* Math.round(((rating * totalRatings - minus + plus) / den) * 10) / 10, in
\* tenths: half-way values go up, as Math.round takes them.
RoundedMean(rating, totalRatings, minus, plus, den) ==
  LET num == rating * totalRatings - 10 * minus + 10 * plus
      exact == (2 * num + den) \div (2 * den)
  IN IF <<rating, totalRatings, minus, plus, den>> \in DoubleRoundsDown
     THEN exact - 1 ELSE exact

\* POST /api/feedback with Math.floor in the place of Math.round.
AddRatingTruncated(agg, x) ==
  [rating |-> (agg.rating * agg.totalRatings + 10 * x)
                \div (agg.totalRatings + 1),
   totalRatings |-> agg.totalRatings + 1]

\* The aggregate {rating, totalRatings} that POST /api/feedback computes from
\* the one it read and the new rating x.
AddRating(agg, x) ==
  [rating |-> RoundedMean(agg.rating, agg.totalRatings, 0, x,
                          agg.totalRatings + 1),
   totalRatings |-> agg.totalRatings + 1]

\* The aggregate that DELETE /api/feedback/:id computes from the one it read
\* (totalRatings >= 1) and the deleted feedback's rating x.
RemoveRating(agg, x) ==
  IF agg.totalRatings > 1
  THEN [rating |-> RoundedMean(agg.rating, agg.totalRatings, x, 0,
                               agg.totalRatings - 1),
        totalRatings |-> agg.totalRatings - 1]
  ELSE [rating |-> 0, totalRatings |-> 0]

\* The aggregate that PUT /api/feedback/:id computes from the one it read
\* (totalRatings > 0), the feedback's old rating and the new one.
ChangeRating(agg, old, new) ==
  [rating |-> RoundedMean(agg.rating, agg.totalRatings, old, new,
                          agg.totalRatings),
   totalRatings |-> agg.totalRatings]

\* The aggregate a request read with Doctor.findOne.
Seen(r) == [rating |-> r.seenRating, totalRatings |-> r.seenTotal]

\* The validators of doctorSchema.rating: min 0, max 5.
ValidRating(x) == x >= 0 /\ x <= 50

\* doctor.save(): Mongoose validates and writes the paths whose value differs
\* from the one loaded.
SaveDoctorRating(d, seen, new) ==
  doctor' = [doctor EXCEPT
               ![d].rating = IF new.rating # seen.rating THEN new.rating ELSE @,
               ![d].totalRatings = IF new.totalRatings # seen.totalRatings
                                   THEN new.totalRatings ELSE @]

\* ---- POST /api/feedback
\* The checks that follow Appointment.findById.
SubmitCheck(p, a) ==
  IF a \notin ApptIds THEN "NotFound"
  ELSE IF appts[a].patient # p THEN "Forbidden"
  ELSE IF appts[a].status # "completed" THEN "NotCompleted"
  ELSE "ok"

SubmitRead(p, a, rating) ==
  /\ Len(req) < MaxReq
  /\ LET r0 == [NoReq EXCEPT !.kind = "submit", !.actor = p, !.appt = a,
                             !.rating = rating]
         chk == SubmitCheck(p, a)
     IN req' = Append(req,
                 IF chk = "ok"
                 THEN [r0 EXCEPT !.pc = "findFeedback",
                                 !.doctor = appts[a].doctor]
                 ELSE Finished(r0, chk))
  /\ UNCHANGED <<now, user, doctor, appts, feedback>>

SubmitFindExisting(r) ==
  /\ req[r].kind = "submit" /\ req[r].pc = "findFeedback"
  /\ req' = [req EXCEPT ![r] =
               IF FeedbackOf(@.appt) # {}
               THEN Finished(@, "DuplicateFeedback")
               ELSE [@ EXCEPT !.pc = "create"]]
  /\ UNCHANGED <<now, user, doctor, appts, feedback>>

\* Feedback.create on a collection without the unique index {appointmentId}.
SubmitCreateNoIndex(r) ==
  /\ req[r].kind = "submit" /\ req[r].pc = "create"
  /\ feedback' = Append(feedback,
                    [appt |-> req[r].appt, patient |-> req[r].actor,
                     doctor |-> req[r].doctor, rating |-> req[r].rating,
                     deleted |-> FALSE])
  /\ req' = [req EXCEPT ![r] = [@ EXCEPT !.pc = "findDoctor",
                                          !.fb = Len(feedback) + 1]]
  /\ UNCHANGED <<now, user, doctor, appts>>

\* Feedback.create: E11000 of the unique index is answered as a duplicate.
SubmitCreate(r) ==
  /\ req[r].kind = "submit" /\ req[r].pc = "create"
  /\ IF FeedbackOf(req[r].appt) # {}
     THEN /\ req' = [req EXCEPT ![r] = Finished(@, "DuplicateFeedback")]
          /\ UNCHANGED feedback
     ELSE /\ feedback' = Append(feedback,
                            [appt |-> req[r].appt, patient |-> req[r].actor,
                             doctor |-> req[r].doctor, rating |-> req[r].rating,
                             deleted |-> FALSE])
          /\ req' = [req EXCEPT ![r] = [@ EXCEPT !.pc = "findDoctor",
                                                  !.fb = Len(feedback) + 1]]
  /\ UNCHANGED <<now, user, doctor, appts>>

\* Doctor.findOne({userId: appointment.doctorId})
SubmitFindDoctor(r) ==
  /\ req[r].kind = "submit" /\ req[r].pc = "findDoctor"
  /\ req' = [req EXCEPT ![r] =
               [@ EXCEPT !.pc = "saveDoctor",
                         !.seenRating = doctor[req[r].doctor].rating,
                         !.seenTotal = doctor[req[r].doctor].totalRatings]]
  /\ UNCHANGED <<now, user, doctor, appts, feedback>>

\* totalRatings = doctor.totalRatings + 1; the new mean; doctor.save(); the
\* feedback is read back and 201 is sent.  A mean outside 0..5 fails the
\* validation and the catch answers 500.
SubmitSaveDoctor(r) ==
  /\ req[r].kind = "submit" /\ req[r].pc = "saveDoctor"
  /\ LET new == AddRating(Seen(req[r]), req[r].rating)
     IN IF ValidRating(new.rating)
        THEN /\ SaveDoctorRating(req[r].doctor, Seen(req[r]), new)
             /\ req' = [req EXCEPT ![r] = Finished(@, "Created")]
        ELSE /\ req' = [req EXCEPT ![r] = Finished(@, "ServerError")]
             /\ UNCHANGED doctor
  /\ UNCHANGED <<now, user, appts, feedback>>

\* ---- PUT /api/feedback/:id
\* The checks that follow Feedback.findById in PUT /:id and DELETE /:id.
FeedbackCheck(p, f) ==
  IF ~Stored(f) THEN "NotFound"
  ELSE IF feedback[f].patient # p THEN "Forbidden"
  ELSE "ok"

\* req.body.rating of a PUT that carries no rating (undefined).
NoRating == 0

\* rating values an update may carry: body('rating').optional().
UpdateInputs == RatingInputs \cup {NoRating}

\* if (rating !== undefined && rating !== oldRating)
RatingChanged(r) == r.rating # NoRating /\ r.rating # r.oldRating

\* The request carries a comment and, optionally, a rating.
UpdateRead(p, f, rating) ==
  /\ Len(req) < MaxReq
  /\ LET r0 == [NoReq EXCEPT !.kind = "update", !.actor = p, !.fb = f,
                             !.rating = rating]
         chk == FeedbackCheck(p, f)
     IN req' = Append(req,
                 IF chk = "ok"
                 THEN [r0 EXCEPT !.pc = "saveFeedback",
                                 !.oldRating = feedback[f].rating,
                                 !.doctor = feedback[f].doctor]
                 ELSE Finished(r0, chk))
  /\ UNCHANGED <<now, user, doctor, appts, feedback>>

\* feedback.save(): the update matches no document when the feedback has
\* been deleted meanwhile (DocumentNotFoundError, answered 500).  The rating
\* is written when it differs from the one loaded; only then the doctor's
\* mean is recomputed.
UpdateSaveFeedback(r) ==
  /\ req[r].kind = "update" /\ req[r].pc = "saveFeedback"
  /\ IF ~Stored(req[r].fb)
     THEN /\ req' = [req EXCEPT ![r] = Finished(@, "ServerError")]
          /\ UNCHANGED feedback
     ELSE /\ feedback' = [feedback EXCEPT ![req[r].fb].rating =
                             IF RatingChanged(req[r])
                             THEN req[r].rating ELSE @]
          /\ req' = [req EXCEPT ![r] =
                       IF RatingChanged(@)
                       THEN [@ EXCEPT !.pc = "findDoctor"]
                       ELSE Finished(@, "Ok")]
  /\ UNCHANGED <<now, user, doctor, appts>>

\* Doctor.findOne({userId: feedback.doctorId}); if (doctor &&
\* doctor.totalRatings > 0)
UpdateFindDoctor(r) ==
  /\ req[r].kind = "update" /\ req[r].pc = "findDoctor"
  /\ req' = [req EXCEPT ![r] =
               IF doctor[req[r].doctor].totalRatings > 0
               THEN [@ EXCEPT !.pc = "saveDoctor",
                              !.seenRating = doctor[req[r].doctor].rating,
                              !.seenTotal = doctor[req[r].doctor].totalRatings]
               ELSE Finished(@, "Ok")]
  /\ UNCHANGED <<now, user, doctor, appts, feedback>>

\* newRating = (doctor.rating * doctor.totalRatings - oldRating + rating) /
\* doctor.totalRatings; doctor.rating = Math.round(newRating * 10) / 10;
\* doctor.save().
UpdateSaveDoctor(r) ==
  /\ req[r].kind = "update" /\ req[r].pc = "saveDoctor"
  /\ LET new == ChangeRating(Seen(req[r]), req[r].oldRating, req[r].rating)
     IN IF ValidRating(new.rating)
        THEN /\ SaveDoctorRating(req[r].doctor, Seen(req[r]), new)
             /\ req' = [req EXCEPT ![r] = Finished(@, "Ok")]
        ELSE /\ req' = [req EXCEPT ![r] = Finished(@, "ServerError")]
             /\ UNCHANGED doctor
  /\ UNCHANGED <<now, user, appts, feedback>>

\* ---- DELETE /api/feedback/:id
DeleteRead(p, f) ==
  /\ Len(req) < MaxReq
  /\ LET r0 == [NoReq EXCEPT !.kind = "delete", !.actor = p, !.fb = f]
         chk == FeedbackCheck(p, f)
     IN req' = Append(req,
                 IF chk = "ok"
                 THEN [r0 EXCEPT !.pc = "findDoctor",
                                 !.rating = feedback[f].rating,
                                 !.doctor = feedback[f].doctor]
                 ELSE Finished(r0, chk))
  /\ UNCHANGED <<now, user, doctor, appts, feedback>>

\* Doctor.findOne({userId: feedback.doctorId}); with totalRatings 0 the
\* handler goes straight on to the delete.
DeleteFindDoctor(r) ==
  /\ req[r].kind = "delete" /\ req[r].pc = "findDoctor"
  /\ req' = [req EXCEPT ![r] =
               IF doctor[req[r].doctor].totalRatings >= 1
               THEN [@ EXCEPT !.pc = "saveDoctor",
                              !.seenRating = doctor[req[r].doctor].rating,
                              !.seenTotal = doctor[req[r].doctor].totalRatings]
               ELSE [@ EXCEPT !.pc = "remove"]]
  /\ UNCHANGED <<now, user, doctor, appts, feedback>>

\* totalRatings > 1: the mean without this rating over totalRatings - 1;
\* totalRatings === 1: rating 0, totalRatings 0; doctor.save().
DeleteSaveDoctor(r) ==
  /\ req[r].kind = "delete" /\ req[r].pc = "saveDoctor"
  /\ LET new == RemoveRating(Seen(req[r]), req[r].rating)
     IN IF ValidRating(new.rating)
        THEN /\ SaveDoctorRating(req[r].doctor, Seen(req[r]), new)
             /\ req' = [req EXCEPT ![r] = [@ EXCEPT !.pc = "remove"]]
        ELSE /\ req' = [req EXCEPT ![r] = Finished(@, "ServerError")]
             /\ UNCHANGED doctor
  /\ UNCHANGED <<now, user, appts, feedback>>

\* Feedback.findByIdAndDelete(req.params.id): no error when the document is
\* gone already.
DeleteRemove(r) ==
  /\ req[r].kind = "delete" /\ req[r].pc = "remove"
  /\ feedback' = [feedback EXCEPT ![req[r].fb] = NoFeedback]
  /\ req' = [req EXCEPT ![r] = Finished(@, "Ok")]
  /\ UNCHANGED <<now, user, doctor, appts>>

\* ---- the feedback routes as a system
\* A state the clinic reaches by bookings, completions and one feedback: the
\* approved doctor d1 has four completed appointments, the first of them
\* rated, the fourth one of another patient, and a confirmed one.
InitFeedback ==
  /\ now = 0
  /\ user = [d \in Doctors |-> [isApproved |-> d = "d1", isActive |-> TRUE]]
  /\ appts = [i \in 1..5 |->
                [patient |-> IF i = 4 THEN "p2" ELSE "p1", doctor |-> "d1",
                 date |-> (i - 1) \div TicksPerDay,
                 startTime |-> (i - 1) % TicksPerDay,
                 endTime |-> ((i - 1) % TicksPerDay) + 1,
                 status |-> IF i = 5 THEN "confirmed" ELSE "completed",
                 cancelReason |-> "", notes |-> "", prescription |-> ""]]
  /\ \E a \in RatingInputs :
       /\ feedback = << [appt |-> 1, patient |-> "p1", doctor |-> "d1",
                         rating |-> a, deleted |-> FALSE] >>
       /\ doctor = [d \in Doctors |->
                     [availability |-> <<>>,
                      totalAppointments |-> IF d = "d1" THEN 5 ELSE 0,
                      rating |-> IF d = "d1" THEN 10 * a ELSE 0,
                      totalRatings |-> IF d = "d1" THEN 1 ELSE 0]]
  /\ req = <<>>

\* :id values a feedback update or delete may carry.
FeedbackTargets == FeedbackIds \cup {0}

\* No request is being handled.
Idle == \A r \in ReqIds : req[r].pc = "done"

FeedbackArrives ==
  \/ \E p \in Patients, a \in TargetIds, x \in RatingInputs : SubmitRead(p, a, x)
  \/ \E p \in Patients, f \in FeedbackTargets, x \in UpdateInputs :
       UpdateRead(p, f, x)
  \/ \E p \in Patients, f \in FeedbackTargets : DeleteRead(p, f)

FeedbackStep ==
  \/ \E r \in ReqIds : SubmitFindExisting(r)
  \/ \E r \in ReqIds : SubmitCreate(r)
  \/ \E r \in ReqIds : SubmitFindDoctor(r)
  \/ \E r \in ReqIds : SubmitSaveDoctor(r)
  \/ \E r \in ReqIds : UpdateSaveFeedback(r)
  \/ \E r \in ReqIds : UpdateFindDoctor(r)
  \/ \E r \in ReqIds : UpdateSaveDoctor(r)
  \/ \E r \in ReqIds : DeleteFindDoctor(r)
  \/ \E r \in ReqIds : DeleteSaveDoctor(r)
  \/ \E r \in ReqIds : DeleteRemove(r)

\* The feedback requests one after the other: a request arrives when no
\* other is being handled.
NextRating == (Idle /\ FeedbackArrives) \/ FeedbackStep

SpecRating == InitFeedback /\ [][NextRating]_vars

\* The appointments a cancel or complete request of this system is about.
OpenIds == { i \in ApptIds : appts[i].status \in ActiveStatuses }

\* The feedback requests in any interleaving, next to the cancel and the
\* complete of the confirmed appointment.
NextFeedback ==
  \/ FeedbackArrives
  \/ FeedbackStep
  \/ \E i \in OpenIds, reason \in Reasons : CancelRead(appts[i].patient, i, reason)
  \/ \E r \in ReqIds : CancelSave(r)
  \/ \E i \in OpenIds, in \in CompleteInputs : CompleteRead(appts[i].doctor, i, in)
  \/ \E r \in ReqIds : CompleteSave(r)

SpecFeedback == InitFeedback /\ [][NextFeedback]_vars

\* The feedback requests one after the other, with database operations
\* that may fail.
NextRatingFault == NextRating \/ \E r \in ReqIds : StorageFailure(r)

SpecRatingFault == InitFeedback /\ [][NextRatingFault]_vars

\* The responses have been sent and no handler is running: nothing of the
\* requests answered so far is kept.
Forget ==
  /\ Idle /\ req # <<>>
  /\ req' = <<>>
  /\ UNCHANGED <<now, user, doctor, appts, feedback>>

\* The feedback requests one after the other, each arriving when the one
\* before has been answered and forgotten, as many as the patients send; a
\* submit arrives while the Feedback collection has had fewer than
\* MaxFeedback documents.
NextRatingLong ==
  \/ /\ req = <<>> /\ Len(feedback) < MaxFeedback
     /\ \E p \in Patients, a \in TargetIds, x \in RatingInputs : SubmitRead(p, a, x)
  \/ /\ req = <<>>
     /\ \E p \in Patients, f \in FeedbackTargets, x \in UpdateInputs :
          UpdateRead(p, f, x)
  \/ /\ req = <<>>
     /\ \E p \in Patients, f \in FeedbackTargets : DeleteRead(p, f)
  \/ FeedbackStep
  \/ Forget

SpecRatingLong == InitFeedback /\ [][NextRatingLong]_vars

\* The patient's SubmitFeedback requests for one completed appointment that
\* has no feedback (the second appointment), in any interleaving.
NextSubmit ==
  \/ \E x \in RatingInputs : SubmitRead("p1", 2, x)
  \/ \E r \in ReqIds : SubmitFindExisting(r)
  \/ \E r \in ReqIds : SubmitCreate(r)
  \/ \E r \in ReqIds : SubmitFindDoctor(r)
  \/ \E r \in ReqIds : SubmitSaveDoctor(r)

SpecSubmit == InitFeedback /\ [][NextSubmit]_vars

\* ---- two doctors
\* A state the clinic reaches by approvals, bookings, a completion and one
\* feedback: doctor d1 has a confirmed appointment, doctor d2 a completed and
\* rated one on the same date.
InitClinic ==
  /\ now = 0
  /\ user = [d \in Doctors |-> [isApproved |-> TRUE, isActive |-> TRUE]]
  /\ appts = << [patient |-> "p1", doctor |-> "d1", date |-> MaxDate,
                 startTime |-> 1, endTime |-> 2, status |-> "confirmed",
                 cancelReason |-> "", notes |-> "", prescription |-> ""],
                [patient |-> "p1", doctor |-> "d2", date |-> MaxDate,
                 startTime |-> 0, endTime |-> 1, status |-> "completed",
                 cancelReason |-> "", notes |-> "", prescription |-> ""] >>
  /\ \E a \in RatingInputs :
       /\ feedback = << [appt |-> 2, patient |-> "p1", doctor |-> "d2",
                         rating |-> a, deleted |-> FALSE] >>
       /\ doctor = [d \in Doctors |->
                     [availability |-> <<>>, totalAppointments |-> 1,
                      rating |-> IF d = "d2" THEN 10 * a ELSE 0,
                      totalRatings |-> IF d = "d2" THEN 1 ELSE 0]]
  /\ req = <<>>

\* Bookings, cancels, completes and feedback requests for both doctors, in
\* any interleaving.
NextClinic ==
  \/ \E p \in Patients, d \in Doctors, t \in Dates, slot \in SlotInputs :
       BookFindDoctor(p, d, t, slot)
  \/ \E r \in ReqIds : BookFindExisting(r)
  \/ \E r \in ReqIds : BookCreate(r)
  \/ \E r \in ReqIds : BookSaveDoctor(r)
  \/ \E i \in OpenIds, reason \in Reasons : CancelRead(appts[i].patient, i, reason)
  \/ \E r \in ReqIds : CancelSave(r)
  \/ \E i \in OpenIds, in \in CompleteInputs : CompleteRead(appts[i].doctor, i, in)
  \/ \E r \in ReqIds : CompleteSave(r)
  \/ FeedbackArrives
  \/ FeedbackStep

SpecClinic == InitClinic /\ [][NextClinic]_vars

\* ---- DELETE /api/admin/users/:userId
NoAppointment == [patient |-> "", doctor |-> "", date |-> 0, startTime |-> 0,
                  endTime |-> 0, status |-> "deleted", cancelReason |-> "",
                  notes |-> "", prescription |-> ""]

\* User.findById(u) finds a document: no DELETE of u has got to its
\* User.findByIdAndDelete.
UserExists(u) ==
  ~\E r \in ReqIds : /\ req[r].kind = "deleteUser" /\ req[r].userId = u
                      /\ req[r].pc = "done" /\ req[r].result = "Ok"

\* The accounts the administrator is asked to delete: patients and admins.
DeleteTargets == Patients \cup Admins

DeleteUserCheck(actor, u) ==
  IF ~Authorize(actor, {"admin"}) THEN "NotAuthorized"
  ELSE IF ~UserExists(u) THEN "NotFound"
  ELSE IF RoleOf(u) = "admin" THEN "CannotDeleteAdmin"
  ELSE "ok"

\* The request arrives; User.findById; the role checks.
DeleteUserRead(actor, u) ==
  /\ Len(req) < MaxReq
  /\ LET chk == DeleteUserCheck(actor, u)
     IN req' = Append(req,
                 [kind |-> "deleteUser", userId |-> u,
                  pc |-> IF chk = "ok" THEN "deleteAppointments" ELSE "done",
                  result |-> IF chk = "ok" THEN "" ELSE chk])
  /\ UNCHANGED <<now, user, doctor, appts, feedback>>

\* Appointment.deleteMany({ patientId: user._id }); nothing else is deleted.
DeleteUserAppointments(r) ==
  /\ req[r].kind = "deleteUser" /\ req[r].pc = "deleteAppointments"
  /\ appts' = [i \in DOMAIN appts |->
                IF appts[i].patient = req[r].userId THEN NoAppointment
                ELSE appts[i]]
  /\ req' = [req EXCEPT ![r].pc = "deleteUser"]
  /\ UNCHANGED <<now, user, doctor, feedback>>

\* User.findByIdAndDelete and the 200 answer.
DeleteUserRemove(r) ==
  /\ req[r].kind = "deleteUser" /\ req[r].pc = "deleteUser"
  /\ req' = [req EXCEPT ![r].pc = "done", ![r].result = "Ok"]
  /\ UNCHANGED <<now, user, doctor, appts, feedback>>

\* The feedback requests of the patients that still have an account, next
\* to the administrator's deletes.
NextAdmin ==
  \/ \E p \in Patients, a \in TargetIds, x \in RatingInputs :
       UserExists(p) /\ SubmitRead(p, a, x)
  \/ \E p \in Patients, f \in FeedbackTargets, x \in UpdateInputs :
       UserExists(p) /\ UpdateRead(p, f, x)
  \/ \E p \in Patients, f \in FeedbackTargets :
       UserExists(p) /\ DeleteRead(p, f)
  \/ FeedbackStep
  \/ \E actor \in Admins \cup Patients, u \in DeleteTargets : DeleteUserRead(actor, u)
  \/ \E r \in ReqIds : DeleteUserAppointments(r)
  \/ \E r \in ReqIds : DeleteUserRemove(r)

SpecAdmin == InitFeedback /\ [][NextAdmin]_vars

\* ---- retryApiCall (frontend API client)
MaxRetries == 3
MaxDelay == 2
NoResponse == 0

\* What one attempt of apiCall settles with: a response, or an error as axios
\* builds it: with the response of a 4xx/5xx answer, or without a response
\* (network failure; aborted request, code ECONNABORTED).
Success == [ok |-> TRUE, response |-> 200, code |-> ""]
ErrorInputs ==
  { [ok |-> FALSE, response |-> 404, code |-> "ERR_BAD_REQUEST"],
    [ok |-> FALSE, response |-> 499, code |-> "ERR_BAD_REQUEST"],
    [ok |-> FALSE, response |-> 500, code |-> "ERR_BAD_RESPONSE"],
    [ok |-> FALSE, response |-> 503, code |-> "ERR_BAD_RESPONSE"],
    [ok |-> FALSE, response |-> NoResponse, code |-> "ERR_NETWORK"],
    [ok |-> FALSE, response |-> NoResponse, code |-> "ECONNABORTED"] }
AttemptInputs == {Success} \cup ErrorInputs

\* Every error is retried.
IsRetryableErrorAny(error) == TRUE

\* error.response?.status >= 500 || error.code === 'ECONNABORTED' || !error.response
IsRetryableError(error) ==
  \/ (error.response # NoResponse /\ error.response >= 500)
  \/ error.code = "ECONNABORTED"
  \/ error.response = NoResponse

\* The test of the for loop, entered with the attempt number.
LoopPc(attempt, maxRetries) ==
  IF attempt <= maxRetries THEN "call" ELSE "returned"

\* One call of retryApiCall is the only record of req; calls counts the
\* invocations of apiCall, waits lists the timeouts slept, last is what the
\* latest attempt settled with.
InitRetry ==
  /\ now = 0
  /\ user = [d \in Doctors |-> [isApproved |-> FALSE, isActive |-> TRUE]]
  /\ doctor = [d \in Doctors |->
                [availability |-> <<>>, totalAppointments |-> 0,
                 rating |-> 0, totalRatings |-> 0]]
  /\ appts = <<>>
  /\ feedback = <<>>
  /\ \E maxRetries \in 1..MaxRetries, delay \in 1..MaxDelay :
       req = << [kind |-> "retry", pc |-> LoopPc(1, maxRetries), attempt |-> 1,
                 maxRetries |-> maxRetries, delay |-> delay, delay0 |-> delay,
                 calls |-> 0, waits |-> <<>>, last |-> Success] >>

\* try { return await apiCall() } catch (error) { ... throw error / go on to
\* the timeout }.
RetryAttempt(o) ==
  /\ req[1].pc = "call"
  /\ LET isLastAttempt == req[1].attempt = req[1].maxRetries
         isRetryableError == IsRetryableError(o)
     IN req' = [req EXCEPT ![1] =
          [@ EXCEPT !.calls = req[1].calls + 1,
                    !.last = o,
                    !.pc = IF o.ok THEN "returned"
                           ELSE IF isLastAttempt \/ ~isRetryableError THEN "thrown"
                           ELSE "wait"]]
  /\ UNCHANGED <<now, user, doctor, appts, feedback>>

\* The timeout fires: delay *= 2, attempt++ and the loop test.
RetryWake ==
  /\ req[1].pc = "wait"
  /\ req' = [req EXCEPT ![1] =
        [@ EXCEPT !.waits = Append(req[1].waits, req[1].delay),
                  !.delay = 2 * req[1].delay,
                  !.attempt = req[1].attempt + 1,
                  !.pc = LoopPc(req[1].attempt + 1, req[1].maxRetries)]]
  /\ UNCHANGED <<now, user, doctor, appts, feedback>>

NextRetry ==
  \/ \E o \in AttemptInputs : RetryAttempt(o)
  \/ RetryWake

SpecRetry == InitRetry /\ [][NextRetry]_vars

\* ---- the resolver next to the bookings
NextSlots ==
  \/ \E d \in Managed : ApproveDoctor(d)
  \/ \E d \in Managed, a \in AvailInputs : UpdateAvailability(d, a)
  \/ \E p \in Patients, d \in BookTargets, t \in Dates, slot \in SlotInputs :
       BookFindDoctor(p, d, t, slot)
  \/ \E r \in ReqIds : BookFindExisting(r)
  \/ \E r \in ReqIds : BookCreate(r)
  \/ \E r \in ReqIds : BookSaveDoctor(r)
  \/ \E d \in BookTargets, q \in DateInputs : SlotsFindDoctor(d, q)
  \/ \E r \in ReqIds : SlotsFindBooked(r)

SpecSlots == Init /\ [][NextSlots]_vars

\* ---- the availability update next to the bookings
\* Availability lists a doctor may submit: the route accepts any array, so
\* also one with an entry that ends before it starts.
AvailInputsAny ==
  AvailInputs \cup
    { << [day |-> "Friday", startTime |-> 1, endTime |-> 0,
          isAvailable |-> TRUE] >> }

NextAvail ==
  \/ \E d \in Doctors : ApproveDoctor(d)
  \/ \E d \in Doctors, a \in AvailInputsAny : UpdateAvailability(d, a)
  \/ \E p \in Patients, d \in BookTargets, t \in Dates, slot \in SlotInputs :
       BookFindDoctor(p, d, t, slot)
  \/ \E r \in ReqIds : BookFindExisting(r)
  \/ \E r \in ReqIds : BookCreate(r)
  \/ \E r \in ReqIds : BookSaveDoctor(r)

SpecAvail == Init /\ [][NextAvail]_vars

\* ------------------------------------------------------------- claims
Active(i) == appts[i].status \in ActiveStatuses

\* The booking requests that went on to the ledger (passed the doctor and
\* past-date checks).
LedgerReqs ==
  { r \in ReqIds : /\ req[r].kind = "book"
                   /\ (req[r].pc # "done" \/ req[r].result \in LedgerResults) }

SameKey(r, q) ==
  /\ req[r].doctor = req[q].doctor
  /\ req[r].date = req[q].date
  /\ req[r].startTime = req[q].startTime

RecordsOf(r) ==
  { i \in ApptIds : /\ appts[i].doctor = req[r].doctor
                    /\ appts[i].date = req[r].date
                    /\ appts[i].startTime = req[r].startTime }

\* C1: for each (doctor, calendar day of appointmentDate, startTime) at most
\* one appointment has status pending or confirmed.
C1_UniquePerDay ==
  \A i, j \in ApptIds :
    ( /\ Active(i) /\ Active(j)
      /\ appts[i].doctor = appts[j].doctor
      /\ Day(appts[i].date) = Day(appts[j].date)
      /\ appts[i].startTime = appts[j].startTime ) => i = j

\* C2: the booking requests that carry the same (doctorId, appointmentDate,
\* startTime) and reach the ledger never create two records, and once all
\* of them have answered exactly one has succeeded, every other one was
\* refused as already booked, and exactly one record has the key.
C2_OneWinner ==
  \A r \in LedgerReqs :
    LET G == { q \in LedgerReqs : SameKey(r, q) }
        won == { q \in G : req[q].pc = "done" /\ req[q].result = "Created" }
    IN /\ Cardinality(won) <= 1
       /\ Cardinality(RecordsOf(r)) <= 1
       /\ (\A q \in G : req[q].pc = "done") =>
            /\ Cardinality(won) = 1
            /\ \A q \in G \ won : req[q].result = "SlotAlreadyBooked"
            /\ Cardinality(RecordsOf(r)) = 1

\* Two requests for one key have both answered: one created the
\* appointment, the other was refused.
C2_Witness ==
  \E r, q \in LedgerReqs :
    /\ r # q /\ SameKey(r, q)
    /\ req[r].pc = "done" /\ req[r].result = "Created"
    /\ req[q].pc = "done" /\ req[q].result = "SlotAlreadyBooked"

\* C3: a completed or cancelled appointment does not occupy its slot: a
\* booking that arrives after the appointments of its (doctor, calendar day,
\* startTime) were cancelled or completed is not refused as already booked,
\* unless a pending or confirmed appointment holds the slot by then.
C3_TerminalFreesSlot ==
  [][ \A r \in ReqIds :
        ( /\ req[r].kind = "book" /\ req[r].pc # "done" /\ req[r].released
          /\ req'[r].pc = "done" /\ req'[r].result = "SlotAlreadyBooked" )
        => \E i \in ApptIds :
             /\ Active(i)
             /\ appts[i].doctor = req[r].doctor
             /\ Day(appts[i].date) = Day(req[r].date)
             /\ appts[i].startTime = req[r].startTime ]_vars

\* The slot of the resolver's answer for doctor d and calendar day `day`
\* that starts at s is reported booked / is reported free.
ReportsBooked(d, day, s) ==
  \E k \in DOMAIN ResolveSlots(d, Midnight(day)) :
    /\ ResolveSlots(d, Midnight(day))[k].startTime = s
    /\ ResolveSlots(d, Midnight(day))[k].isBooked

ReportsFree(d, day, s) ==
  \A k \in DOMAIN ResolveSlots(d, Midnight(day)) :
    ResolveSlots(d, Midnight(day))[k].startTime = s
      => ~ResolveSlots(d, Midnight(day))[k].isBooked

Offers(d, t, s) ==
  \E k \in DOMAIN doctor[d].availability :
    /\ doctor[d].availability[k].day = DayName(t)
    /\ doctor[d].availability[k].startTime = s
    /\ doctor[d].availability[k].isAvailable

\* C4: while a booked appointment is pending or confirmed the resolver
\* reports its (enabled) slot booked, and right after the appointment is
\* cancelled the resolver reports that slot free.
C4_ResolverConsistency ==
  /\ [](\A i \in ApptIds :
          (Active(i) /\ Offers(appts[i].doctor, appts[i].date, appts[i].startTime))
            => ReportsBooked(appts[i].doctor, Day(appts[i].date), appts[i].startTime))
  /\ [][ \A i \in ApptIds :
           (Active(i) /\ appts'[i].status = "cancelled")
             => ReportsFree(appts[i].doctor, Day(appts[i].date),
                            appts[i].startTime)' ]_vars

\* C5: completed and cancelled are terminal: a stored status that is
\* completed or cancelled never changes again.
C5_TerminalStatus ==
  [][ \A i \in ApptIds :
        appts[i].status \in TerminalStatuses
          => appts'[i].status = appts[i].status ]_vars

\* The request that a step has just received.
Arrived == Len(req') = Len(req) + 1
Newest == req'[Len(req')]

\* C6 as stated: a CompleteAppointment on a completed or cancelled
\* appointment is answered InvalidStateTransition whoever the actor is, and
\* changes no appointment.  Stated for the actors the route's role check
\* lets through (the assigned doctor and every other doctor).
C6_AlwaysInvalidState ==
  [][ \A u \in Doctors, id \in ApptIds, in \in CompleteInputs :
        (CompleteRead(u, id, in) /\ appts[id].status \in TerminalStatuses)
          => /\ Newest.pc = "done"
             /\ Newest.result = "InvalidState"
             /\ appts' = appts ]_vars

\* C6 as amended: such a request always fails and changes no appointment;
\* it is answered InvalidStateTransition to the assigned doctor and
\* Forbidden to every other actor.
C6_FailsByActor ==
  [][ \A u \in Users, id \in ApptIds, in \in CompleteInputs :
        (CompleteRead(u, id, in) /\ appts[id].status \in TerminalStatuses)
          => /\ Newest.pc = "done"
             /\ Newest.result = IF u = appts[id].doctor THEN "InvalidState"
                                ELSE "Forbidden"
             /\ appts' = appts ]_vars

\* The assigned doctor's CompleteAppointment on a completed or cancelled
\* appointment has been answered InvalidStateTransition.
C6_Witness ==
  \E r \in ReqIds :
    /\ req[r].kind = "complete" /\ req[r].pc = "done"
    /\ req[r].result = "InvalidState"
    /\ \E i \in ApptIds : appts[i].status \in TerminalStatuses

\* C7: an appointment is created only for a (weekday, startTime, endTime)
\* that is an enabled WeeklySlot of the doctor's availability.
C7_BookedSlotIsOffered ==
  [][ Len(appts') > Len(appts) =>
        LET a == appts'[Len(appts')]
        IN \E k \in DOMAIN doctor[a.doctor].availability :
             /\ doctor[a.doctor].availability[k].day = DayName(a.date)
             /\ doctor[a.doctor].availability[k].startTime = a.startTime
             /\ doctor[a.doctor].availability[k].endTime = a.endTime
             /\ doctor[a.doctor].availability[k].isAvailable ]_vars

\* C8: a booking for a doctor whose account is not approved or not active
\* is answered DoctorUnavailable (and so never reaches the ledger).
C8_InactiveUnbookable ==
  [][ \A p \in Patients, d \in Doctors, t \in Dates, slot \in SlotInputs :
        ( /\ BookFindDoctor(p, d, t, slot)
          /\ ~(user[d].isApproved /\ user[d].isActive) )
          => Newest.result = "DoctorUnavailable" ]_vars

\* C9: the date combined with startTime must be later than the request
\* time.  Stated for the instants strictly before the request time, where
\* the claim leaves no doubt: a booking for an existing approved doctor
\* whose combined instant is already past is answered PastDate, and no
\* booking whose combined instant is already past goes on to the ledger.
C9_CombinedInFuture ==
  [][ \A p \in Patients, d \in Doctors, t \in Dates, slot \in SlotInputs :
        (BookFindDoctor(p, d, t, slot) /\ user[d].isApproved)
          => /\ Combined(t, slot.startTime) < now
                  => Newest.result = "PastDate"
             /\ Newest.pc # "done"
                  => Combined(t, slot.startTime) >= now ]_vars

\* C10: a booking that answers an error has stored no appointment.
C10_FailedBookingStoresNothing ==
  \A r \in ReqIds :
    ( /\ req[r].kind = "book" /\ req[r].pc = "done"
      /\ req[r].result # "Created" ) => req[r].appt \notin ApptIds

\* C11: a notifier failure never surfaces and never rolls back: when the
\* notifier call of a booking or of a cancellation fails, the request is
\* answered with success, and the appointment, the doctor and every other
\* stored document are as the handler had written them.
C11_NotifierFailureSwallowed ==
  [][ \A r \in ReqIds :
        (req[r].pc = "email" /\ req'[r].mail = "failed")
          => /\ req'[r].pc = "done"
             /\ req'[r].result = (IF req[r].kind = "book" THEN "Created" ELSE "Ok")
             /\ req[r].appt \in ApptIds
             /\ appts' = appts /\ doctor' = doctor
             /\ req[r].kind = "cancel"
                  => appts'[req[r].appt].cancelReason = req[r].reason ]_vars

\* A booking and the cancellation of its appointment have both been answered
\* with success although the notifier failed both times; the appointment is
\* stored, cancelled, with its reason.
C11_Witness ==
  \E r, q \in ReqIds :
    /\ req[r].kind = "book" /\ req[r].mail = "failed"
    /\ req[r].result = "Created"
    /\ req[q].kind = "cancel" /\ req[q].mail = "failed"
    /\ req[q].result = "Ok" /\ req[q].appt = req[r].appt
    /\ req[r].appt \in ApptIds
    /\ appts[req[r].appt].status = "cancelled"
    /\ appts[req[r].appt].cancelReason = "sick"

\* C12: once the insert of a booking has succeeded its response is
\* eventually sent, whatever the notifier call does.
C12_ResponseNotDelayed ==
  \A r \in 1..MaxReq :
    (r \in ReqIds /\ req[r].kind = "book" /\ req[r].pc \in {"saveDoctor", "email"})
      ~> (r \in ReqIds /\ req[r].pc = "done")

\* The feedback documents of doctor d, and the sum of their ratings.
Ratings(d) == { f \in FeedbackIds : Stored(f) /\ feedback[f].doctor = d }

RECURSIVE SumRatings(_)
SumRatings(S) ==
  IF S = {} THEN 0
  ELSE LET f == CHOOSE g \in S : TRUE
       IN feedback[f].rating + SumRatings(S \ {f})

\* C13: between feedback operations that do not overlap, the doctor's
\* totalRatings is the number of the doctor's feedback documents and the
\* rating is their mean rounded to one decimal (within 0.05 of the mean,
\* whichever way a half is rounded), 0 when there are none.
C13_RatingIsMean ==
  Idle =>
    \A d \in Doctors :
      LET n == Cardinality(Ratings(d))
          sum == SumRatings(Ratings(d))
          gap == doctor[d].rating * n - 10 * sum
      IN /\ doctor[d].totalRatings = n
         /\ 2 * gap <= n /\ 2 * gap >= -n
         /\ n = 0 => doctor[d].rating = 0

\* C14: the stored mean is within 0..5, the count is not negative, and the
\* mean is 0 exactly when the count is 0 (stated for the states in which no
\* request is being handled).
C14_RatingBounds ==
  Idle =>
    \A d \in Doctors :
      /\ doctor[d].rating >= 0 /\ doctor[d].rating <= 50
      /\ doctor[d].totalRatings >= 0
      /\ (doctor[d].rating = 0) <=> (doctor[d].totalRatings = 0)

\* C15: from every aggregate reached between feedback operations, adding a
\* rating of 1..5 and removing it again gives the aggregate back.
C15_AddThenRemove ==
  Idle =>
    \A d \in Doctors, x \in 1..5 :
      LET agg == [rating |-> doctor[d].rating,
                  totalRatings |-> doctor[d].totalRatings]
      IN ValidRating(AddRating(agg, x).rating)
           => RemoveRating(AddRating(agg, x), x) = agg

\* The aggregates that adding the ratings of the feedback documents S to agg
\* gives, over all the orders of adding them.
RECURSIVE SerialResults(_, _)
SerialResults(agg, S) ==
  IF S = {} THEN {agg}
  ELSE UNION { SerialResults(AddRating(agg, feedback[f].rating), S \ {f}) :
               f \in S }

\* C16: when the requests received are SubmitFeedback requests that have all
\* succeeded, the doctor's totalRatings is the initial count plus their
\* number and the rating is what adding their ratings one after the other,
\* in some order, gives.
C16_NoLostUpdate ==
  ( /\ req # <<>>
    /\ \A r \in ReqIds : /\ req[r].kind = "submit" /\ req[r].pc = "done"
                         /\ req[r].result = "Created" )
    => /\ doctor["d1"].totalRatings = 1 + Len(req)
       /\ [rating |-> doctor["d1"].rating,
           totalRatings |-> doctor["d1"].totalRatings]
            \in SerialResults(AddRating([rating |-> 0, totalRatings |-> 0],
                                        feedback[1].rating),
                              FeedbackIds \ {1})

\* C17: an appointment has at most one feedback; a feedback is created by
\* the appointment's own patient and while the appointment is completed; a
\* SubmitFeedback for an appointment of another patient, for one that is not
\* completed, or for one that has feedback is refused (Forbidden,
\* NotCompleted, DuplicateFeedback), and a refused one creates nothing.
C17_FeedbackGated ==
  /\ [](\A a \in ApptIds : Cardinality(FeedbackOf(a)) <= 1)
  /\ [][ /\ Len(feedback') > Len(feedback) =>
              LET f == feedback'[Len(feedback')]
              IN /\ f.patient = appts[f.appt].patient
                 /\ appts[f.appt].status = "completed"
         /\ \A p \in Patients, a \in ApptIds, x \in RatingInputs :
              SubmitRead(p, a, x) =>
                /\ appts[a].patient # p => Newest.result = "Forbidden"
                /\ (appts[a].patient = p /\ appts[a].status # "completed")
                     => Newest.result = "NotCompleted"
         /\ \A r \in ReqIds :
              /\ (SubmitFindExisting(r) /\ FeedbackOf(req[r].appt) # {})
                   => req'[r].result = "DuplicateFeedback"
              /\ ( /\ req[r].kind = "submit" /\ req[r].pc # "done"
                   /\ req'[r].pc = "done" /\ req'[r].result # "Created" )
                   => req[r].fb = 0 /\ feedback' = feedback ]_vars

\* A feedback request has written: a submit has created its feedback, an
\* update has saved the feedback, a delete has saved the doctor.
Wrote(r) ==
  \/ req[r].kind = "submit" /\ req[r].fb # 0
  \/ req[r].kind = "update" /\ req[r].pc \in {"findDoctor", "saveDoctor"}
       /\ req[r].rating # req[r].oldRating
  \/ req[r].kind = "delete" /\ req[r].pc = "remove" /\ req[r].seenTotal >= 1

\* C18: a feedback operation that answers an error has written nothing: the
\* doctor's aggregate and the feedback documents are as it found them.
C18_FailedRatingWritesNothing ==
  [][ \A r \in ReqIds :
        ( /\ req[r].kind \in {"submit", "update", "delete"}
          /\ req[r].pc # "done" /\ req'[r].pc = "done"
          /\ req'[r].result \notin {"Created", "Ok"} )
          => /\ ~Wrote(r)
             /\ feedback' = feedback /\ doctor' = doctor ]_vars

\* C19: the resolver answers NotFound for a doctor that does not exist (and a
\* date), InvalidInput for a date that is missing or cannot be parsed (and a
\* doctor that exists); a date that cannot be parsed is never answered with
\* a slot list.
C19_ResolverErrors ==
  [][ \A d \in BookTargets, q \in DateInputs :
        SlotsFindDoctor(d, q) =>
          /\ (q.form \in {"missing", "malformed"} /\ d \in Doctors)
               => Newest.pc = "done" /\ Newest.result = "InvalidInput"
          /\ (q.form = "date" /\ d \notin Doctors)
               => Newest.pc = "done" /\ Newest.result = "NotFound"
          /\ q.form = "malformed"
               => Newest.pc = "done" /\ Newest.result # "Ok" ]_vars

\* C20: a CancelAppointment by an actor who is neither the appointment's
\* patient, nor its doctor, nor an admin is answered Forbidden, and so is a
\* CompleteAppointment by anyone but the appointment's doctor; neither
\* changes an appointment.
C20_Authorization ==
  [][ \A u \in Users, id \in ApptIds :
        /\ \A reason \in Reasons :
             ( /\ CancelRead(u, id, reason)
               /\ u # appts[id].patient /\ u # appts[id].doctor
               /\ RoleOf(u) # "admin" )
               => /\ Newest.pc = "done" /\ Newest.result = "Forbidden"
                  /\ appts' = appts
        /\ \A in \in CompleteInputs :
             (CompleteRead(u, id, in) /\ u # appts[id].doctor)
               => /\ Newest.pc = "done" /\ Newest.result = "Forbidden"
                  /\ appts' = appts ]_vars

\* A cancel and a complete have both been answered Forbidden while the
\* appointment they were about is stored, confirmed and without reason,
\* notes or prescription.
C20_Witness ==
  /\ \E r, q \in ReqIds :
       /\ req[r].kind = "cancel" /\ req[r].result = "Forbidden"
       /\ req[q].kind = "complete" /\ req[q].result = "Forbidden"
  /\ Len(appts) = 1
  /\ appts[1].status = "confirmed" /\ appts[1].cancelReason = ""
  /\ appts[1].notes = "" /\ appts[1].prescription = ""

\* The bookings of doctor d that have answered 201.
Booked(d) ==
  { r \in ReqIds : /\ req[r].kind = "book" /\ req[r].pc = "done"
                   /\ req[r].result = "Created" /\ req[r].doctor = d }

\* C21: once every request received has been answered, a doctor's
\* totalAppointments is its initial value (0) plus the number of bookings
\* for that doctor that succeeded.
C21_TotalAppointments ==
  Idle => \A d \in Managed :
            doctor[d].totalAppointments = Cardinality(Booked(d))

\* C22: every change of an appointment's status is confirmed -> completed
\* written by the complete request of the assigned doctor, or pending or
\* confirmed -> cancelled written by the cancel request of the patient, the
\* assigned doctor or an admin.
C22_StatusMachine ==
  [][ \A i \in ApptIds :
        appts'[i].status # appts[i].status =>
          \E r \in ReqIds :
            /\ req[r].appt = i
            /\ \/ /\ CompleteSave(r)
                  /\ appts[i].status = "confirmed"
                  /\ appts'[i].status = "completed"
                  /\ req[r].actor = appts[i].doctor
               \/ /\ CancelSave(r)
                  /\ appts[i].status \in ActiveStatuses
                  /\ appts'[i].status = "cancelled"
                  /\ \/ req[r].actor \in {appts[i].patient, appts[i].doctor}
                     \/ RoleOf(req[r].actor) = "admin" ]_vars

\* C23: no stored appointment ever has status pending, and every appointment
\* is created with status confirmed.
C23_PendingUnreached ==
  /\ [](\A i \in ApptIds : appts[i].status # "pending")
  /\ [][ Len(appts') > Len(appts)
           => appts'[Len(appts')].status = "confirmed" ]_vars

\* A booking has answered 201; of the appointments created one is still
\* confirmed and one has been cancelled or completed since.
C23_Witness ==
  /\ Cardinality(Booked("d1")) >= 1
  /\ \E i, j \in ApptIds :
       /\ appts[i].status = "confirmed"
       /\ appts[j].status \in TerminalStatuses

\* Doctor d has a pending or confirmed appointment that starts at s on the
\* calendar day of the instant t.
BookedOn(d, t, s) ==
  \E i \in ApptIds : /\ Active(i)
                     /\ appts[i].doctor = d
                     /\ Day(appts[i].date) = Day(t)
                     /\ appts[i].startTime = s

\* The entries of d's availability for the weekday of t that are enabled, in
\* stored order.
Candidates(d, t) ==
  SelectSeq(doctor[d].availability,
            LAMBDA w : w.isAvailable /\ w.day = DayName(t))

\* C24: the resolver answers a date with exactly the doctor's enabled entries
\* of the date's weekday, in stored order (with the empty list, not an
\* error, when there are none), each marked booked exactly when a pending or
\* confirmed appointment of the doctor on that date has its startTime.
C24_ResolverAnswer ==
  [][ /\ \A d \in Managed, q \in DateInputs :
           (SlotsFindDoctor(d, q) /\ q.form = "date") =>
             /\ Newest.slots = Candidates(d, q.t)
             /\ Candidates(d, q.t) = <<>>
                  => Newest.pc = "done" /\ Newest.result = "Ok"
      /\ \A r \in ReqIds :
           SlotsFindBooked(r) =>
             /\ req'[r].pc = "done" /\ req'[r].result = "Ok"
             /\ DOMAIN req'[r].slots = DOMAIN req[r].slots
             /\ \A k \in DOMAIN req[r].slots :
                  /\ req'[r].slots[k].day = req[r].slots[k].day
                  /\ req'[r].slots[k].startTime = req[r].slots[k].startTime
                  /\ req'[r].slots[k].endTime = req[r].slots[k].endTime
                  /\ req'[r].slots[k].isBooked
                       <=> BookedOn(req[r].doctor, req[r].date,
                                    req[r].slots[k].startTime) ]_vars

\* C25: the resolver writes nothing, and its answer is a function of what is
\* stored: a call whose two reads have no availability write in between is
\* answered with ResolveSlots of the stored state, so that two calls with no
\* write in between are answered alike.
C25_ResolverReadOnly ==
  [][ /\ \A d \in BookTargets, q \in DateInputs :
           SlotsFindDoctor(d, q) =>
             /\ UNCHANGED <<now, user, doctor, appts, feedback>>
             /\ (q.form = "date" /\ d \in Doctors /\ Newest.pc = "done")
                  => Newest.slots = ResolveSlots(d, q.t)
      /\ \A r \in ReqIds :
           SlotsFindBooked(r) =>
             /\ UNCHANGED <<now, user, doctor, appts, feedback>>
             /\ req[r].slots = DayAvailability(req[r].doctor,
                                               DayName(req[r].date))
                  => req'[r].slots = ResolveSlots(req[r].doctor, req[r].date) ]_vars

\* Two calls of the resolver have been answered with the same list, in which
\* a slot is marked booked, and the booking that holds it is stored.
C25_Witness ==
  /\ \E r, q \in ReqIds :
       /\ r # q
       /\ req[r].kind = "slots" /\ req[r].result = "Ok"
       /\ req[q].kind = "slots" /\ req[q].result = "Ok"
       /\ req[r].slots = req[q].slots
       /\ \E k \in DOMAIN req[r].slots : req[r].slots[k].isBooked
  /\ \E i \in ApptIds : Active(i)

\* The stored mean (in tenths) is num / den (num in tenths) rounded to one
\* decimal: within 0.05 of it, whichever way a half is rounded.
Near(stored, num, den) ==
  /\ 2 * (stored * den - num) <= den
  /\ 2 * (stored * den - num) >= -den

\* C26: a SubmitFeedback with rating x that succeeds on a doctor with the
\* aggregate (oldMean, oldCount) leaves the count oldCount + 1 and the mean
\* (oldMean * oldCount + x) / (oldCount + 1) rounded once to one decimal;
\* (4.0, 2) and x = 5 give (4.3, 3).
C26_SubmitAggregate ==
  /\ [](AddRating([rating |-> 40, totalRatings |-> 2], 5)
          = [rating |-> 43, totalRatings |-> 3])
  /\ [][ \A r \in ReqIds :
           (SubmitSaveDoctor(r) /\ req'[r].result = "Created") =>
             LET old == doctor[req[r].doctor]
                 new == doctor'[req[r].doctor]
             IN /\ new.totalRatings = old.totalRatings + 1
                /\ Near(new.rating,
                        old.rating * old.totalRatings + 10 * req[r].rating,
                        old.totalRatings + 1) ]_vars

\* A SubmitFeedback has just been answered 201 for the doctor's third
\* feedback: the ratings are 2, 1 and 5, the aggregate went from (1.5, 2)
\* to (2.7, 3).
C26_Witness ==
  /\ req = << Finished([NoReq EXCEPT !.kind = "submit"], "Created") >>
  /\ Len(feedback) = 3
  /\ feedback[1].rating = 2 /\ feedback[2].rating = 1 /\ feedback[3].rating = 5
  /\ doctor["d1"].rating = 27 /\ doctor["d1"].totalRatings = 3

\* C27: an UpdateFeedback that changes a feedback's rating from old to new
\* sets the doctor's mean to (mean * count - old + new) / count rounded to
\* one decimal and leaves the count unchanged; one that gives no rating or
\* the rating the feedback has leaves the aggregate unchanged.
C27_UpdateAggregate ==
  [][ \A r \in ReqIds :
        /\ (UpdateSaveFeedback(r) /\ Stored(req[r].fb)) =>
             IF RatingChanged(req[r])
             THEN req'[r].pc = "findDoctor"
             ELSE /\ req'[r].pc = "done" /\ req'[r].result = "Ok"
                  /\ doctor' = doctor
        /\ UpdateFindDoctor(r) => req'[r].pc = "saveDoctor"
        /\ UpdateSaveDoctor(r) =>
             LET old == doctor[req[r].doctor]
                 new == doctor'[req[r].doctor]
             IN /\ req'[r].result = "Ok"
                /\ new.totalRatings = old.totalRatings
                /\ Near(new.rating,
                        old.rating * old.totalRatings - 10 * req[r].oldRating
                          + 10 * req[r].rating,
                        old.totalRatings) ]_vars

\* C28: a DeleteFeedback of a feedback with rating x resets the aggregate to
\* (0, 0) when the count is 1; when the count is greater than 1 the mean
\* becomes (mean * count - x) / (count - 1) rounded to one decimal and the
\* count goes down by exactly 1; in both cases the Feedback document is
\* removed.
C28_DeleteAggregate ==
  [][ \A r \in ReqIds :
        /\ (DeleteSaveDoctor(r) /\ doctor[req[r].doctor].totalRatings >= 1) =>
             LET old == doctor[req[r].doctor]
                 new == doctor'[req[r].doctor]
             IN /\ req'[r].pc = "remove"
                /\ old.totalRatings = 1
                     => new.rating = 0 /\ new.totalRatings = 0
                /\ old.totalRatings > 1
                     => /\ new.totalRatings = old.totalRatings - 1
                        /\ Near(new.rating,
                                old.rating * old.totalRatings - 10 * req[r].rating,
                                old.totalRatings - 1)
        /\ DeleteRemove(r) =>
             /\ req'[r].pc = "done" /\ req'[r].result = "Ok"
             /\ ~Stored(req[r].fb)' ]_vars

\* C29: every stored entry of a doctor's availability has startTime before
\* endTime, whatever list was submitted.
C29_SlotStartsBeforeEnd ==
  \A d \in Doctors :
    \A k \in DOMAIN doctor[d].availability :
      doctor[d].availability[k].startTime < doctor[d].availability[k].endTime

\* C30: an UpdateAvailability stores exactly the submitted list as the
\* doctor's availability (nothing of the old list is kept) and leaves the
\* appointments, the doctor's rating, totalRatings and totalAppointments and
\* every other doctor unchanged.
C30_AvailabilityReplaced ==
  [][ \A d \in Doctors, a \in AvailInputsAny :
        UpdateAvailability(d, a) =>
          /\ doctor'[d].availability = a
          /\ doctor'[d].rating = doctor[d].rating
          /\ doctor'[d].totalRatings = doctor[d].totalRatings
          /\ doctor'[d].totalAppointments = doctor[d].totalAppointments
          /\ \A e \in Doctors \ {d} : doctor'[e] = doctor[e]
          /\ appts' = appts ]_vars

\* Doctor d1, with an appointment booked and counted, has a one-entry list
\* stored while doctor d2 has a two-entry list.
C30_Witness ==
  /\ Len(doctor["d1"].availability) = 1
  /\ Len(doctor["d2"].availability) = 2
  /\ doctor["d1"].totalAppointments = 1
  /\ \E i \in ApptIds : appts[i].doctor = "d1"

\* Actor u may cancel appointment id: its patient, its doctor, or an admin.
MayCancel(u, id) ==
  \/ u \in {appts[id].patient, appts[id].doctor}
  \/ RoleOf(u) = "admin"

\* C31: a CancelAppointment by an authorized actor writes only over a pending
\* or confirmed appointment, and then stores status cancelled with the given
\* reason; on a completed or cancelled appointment it is answered
\* InvalidStateTransition and the appointment keeps its status and its
\* cancelReason.
C31_CancelOnlyFromActive ==
  [][ /\ \A u \in Users, id \in ApptIds, reason \in Reasons :
           ( /\ CancelRead(u, id, reason) /\ MayCancel(u, id)
             /\ appts[id].status \in TerminalStatuses )
             => /\ Newest.pc = "done" /\ Newest.result = "InvalidState"
                /\ appts' = appts
      /\ \A r \in ReqIds :
           CancelSave(r) =>
             /\ appts[req[r].appt].status \in ActiveStatuses
             /\ appts'[req[r].appt].status = "cancelled"
             /\ appts'[req[r].appt].cancelReason = req[r].reason
             /\ req'[r].result = "Ok" ]_vars

\* C33: a doctor's totalAppointments never decreases: every stored value is
\* at least the value stored before it.
C33_TotalAppointmentsMonotone ==
  [][ \A d \in Doctors :
        doctor'[d].totalAppointments >= doctor[d].totalAppointments ]_vars

\* The cancel and complete requests that have been answered with success.
Succeeded ==
  { r \in ReqIds : /\ req[r].kind \in {"cancel", "complete"}
                   /\ req[r].pc = "done" /\ req[r].result = "Ok" }

\* C34: of the cancel and complete requests for one confirmed appointment at
\* most one is answered with success (stated while one appointment is
\* stored, which every such request is then about), and no appointment
\* carries both a cancelReason and notes or a prescription.
C34_OneTerminalWriter ==
  /\ Len(appts) = 1 => Cardinality(Succeeded) <= 1
  /\ \A i \in ApptIds :
       ~( /\ appts[i].cancelReason # ""
          /\ (appts[i].notes # "" \/ appts[i].prescription # "") )

\* The contribution of the feedback that delete request r is about has been
\* taken out of the aggregate already: the document is gone, or another
\* delete of it has saved the doctor and is about to remove it.
AlreadyRemoved(r) ==
  \/ ~Stored(req[r].fb)
  \/ \E q \in ReqIds \ {r} :
       /\ req[q].kind = "delete" /\ req[q].pc = "remove"
       /\ req[q].fb = req[r].fb /\ req[q].seenTotal >= 1

\* C36: a feedback's contribution is removed from the aggregate at most
\* once: a delete of a feedback whose contribution another delete has
\* removed already does not lower totalRatings again.
C36_RemovedOnce ==
  [][ \A r \in ReqIds :
        (DeleteSaveDoctor(r) /\ AlreadyRemoved(r))
          => doctor'[req[r].doctor].totalRatings
               >= doctor[req[r].doctor].totalRatings ]_vars

\* A BookAppointment for (d, t, s) that arrives now and runs alone is
\* answered SlotAlreadyBooked: by the findOne of an active appointment or
\* by the unique index.
WouldBeRefused(d, t, s) ==
  ExistingAppointment(d, t, s) \/ DuplicateKey(d, t, s)

\* C37: with no request in flight, for an approved doctor and a date that is
\* not past, a slot the resolver returns is marked booked exactly when a
\* booking for that doctor, date and startTime would be answered
\* SlotAlreadyBooked.
C37_ResolverAgreesWithLedger ==
  Idle =>
    \A d \in Managed, t \in Dates :
      (user[d].isApproved /\ t >= now) =>
        \A k \in DOMAIN ResolveSlots(d, t) :
          ResolveSlots(d, t)[k].isBooked
            <=> WouldBeRefused(d, t, ResolveSlots(d, t)[k].startTime)

\* The requests answered with result res.
Answered(res) ==
  { r \in ReqIds : req[r].pc = "done" /\ req[r].result = res }

\* C35: of the SubmitFeedback requests of the patient for one completed
\* appointment never two create a Feedback document, and once all N of them
\* have been answered exactly one has succeeded, N - 1 were refused as
\* duplicates, the appointment has exactly one Feedback document and the
\* doctor's totalRatings has gone up by exactly 1 (from 1 to 2).
C35_OneFeedbackWins ==
  /\ Cardinality(FeedbackOf(2)) <= 1
  /\ (Idle /\ req # <<>>) =>
       /\ Cardinality(Answered("Created")) = 1
       /\ Cardinality(Answered("DuplicateFeedback")) = Len(req) - 1
       /\ Cardinality(FeedbackOf(2)) = 1
       /\ doctor["d1"].totalRatings = 2

\* Three requests for the appointment have been answered: one created the
\* feedback and two were refused as duplicates.
C35_Witness ==
  /\ Idle /\ Len(req) = 3
  /\ Cardinality(Answered("Created")) = 1
  /\ Cardinality(Answered("DuplicateFeedback")) = 2
  /\ Cardinality(FeedbackOf(2)) = 1

\* The doctor that request r concerns.
DoctorOf(r) ==
  IF req[r].kind \in {"cancel", "complete"} THEN appts[req[r].appt].doctor
  ELSE req[r].doctor

\* Nothing of doctor e changes in the step: the Doctor document, the
\* doctor's appointments and feedback, and none is added.
Untouched(e) ==
  /\ doctor'[e] = doctor[e]
  /\ \A i \in ApptIds : appts[i].doctor = e => appts'[i] = appts[i]
  /\ \A i \in DOMAIN appts' \ ApptIds : appts'[i].doctor # e
  /\ \A f \in FeedbackIds : feedback[f].doctor = e => feedback'[f] = feedback[f]
  /\ \A f \in DOMAIN feedback' \ FeedbackIds : feedback'[f].doctor # e

\* C32: a step of a booking, cancel, complete or feedback request that
\* concerns one doctor leaves every other doctor's document (availability,
\* rating, totalRatings, totalAppointments), appointments and feedback
\* unchanged, and a booking is refused as already booked only when an
\* appointment of its own doctor has its date and startTime.
C32_DoctorsIndependent ==
  [][ \A r \in ReqIds :
        (req[r].pc # "done" /\ req'[r] # req[r]) =>
          /\ \A e \in Doctors \ {DoctorOf(r)} : Untouched(e)
          /\ ( /\ req[r].kind = "book" /\ req'[r].pc = "done"
               /\ req'[r].result = "SlotAlreadyBooked" )
               => \E i \in ApptIds : /\ appts[i].doctor = req[r].doctor
                                      /\ appts[i].date = req[r].date
                                      /\ appts[i].startTime = req[r].startTime ]_vars

\* A booking for doctor d1 has succeeded for the date and startTime of an
\* appointment of doctor d2, and d2's rated aggregate is stored.
C32_Witness ==
  /\ \E r \in ReqIds, i \in ApptIds :
       /\ req[r].kind = "book" /\ req[r].result = "Created"
       /\ req[r].doctor = "d1" /\ appts[i].doctor = "d2"
       /\ appts[i].date = req[r].date /\ appts[i].startTime = req[r].startTime
  /\ doctor["d2"].totalRatings = 1
  /\ doctor["d1"].totalAppointments = 2

\* Steps taken so far by the call of retryApiCall: attempts and timeouts.
RetryProgress == req[1].calls + Len(req[1].waits)

FeedbackFor(d) == { f \in FeedbackIds : Stored(f) /\ feedback[f].doctor = d }

\* C38: whenever no request is in progress, every stored Feedback references
\* an existing Appointment whose status is completed, and every doctor's
\* totalRatings is the number of stored Feedback records that reference the
\* doctor; also after an administrator has deleted an account.
C38_FeedbackIntegrity ==
  Idle =>
    /\ \A f \in FeedbackIds : Stored(f) =>
         /\ feedback[f].appt \in ApptIds
         /\ appts[feedback[f].appt].status = "completed"
    /\ \A d \in Doctors : doctor[d].totalRatings = Cardinality(FeedbackFor(d))

====
